---- MODULE Spec2Model ----
\* Verification model of kvasari-api's artwork store: the upload pipeline
\* (addArtwork / writeImage), soft deletion, the start-up reconciliation
\* (cleanRemovedArtworks) and the two-cursor feed query (GetStream).
\*
\* Modelling decisions
\*   - An artwork's identity is the SHA-256 of its bytes; a payload is named by
\*     its hash (an integer here), and its format is a function of the payload,
\*     so the blob "{hash}.{format}" is named by the hash alone.
\*   - Timestamps are the seconds ntime.Now() formats to (RFC3339, UTC); two
\*     requests served within the same second read the same value.
\*   - Every handler is one atomic step.  The store's statements succeed, with
\*     one exception: the compensating CleanArtwork of addArtwork, whose error
\*     the handler discards (`_ = ar.CleanArtwork(...)`), may fail.
\*   - A blob is "absent", "ok" (complete) or "partial" (created or truncated by
\*     os.Create, copy not completed).
EXTENDS Integers, Sequences, FiniteSets, TLC

\* ---------------------------------------------------------------- bounds
Users == {"u1", "u2"}

\* payloads that clients upload, delete, comment and react to
MaxPayload == 2
Payloads == 1..MaxPayload

\* rows that only the feed specification's initial catalog holds
MaxBulk == 12
Hashes == 1..(MaxPayload + MaxBulk)

\* payloads whose artworks receive comments and reactions, and whose rows the
\* feed specification's catalogs draw
MaxFeedbackPayload == 1
FeedbackPayloads == 1..MaxFeedbackPayload

MaxClock == 2
MaxComments == 1
MaxReactions == 1
\* rows.Scan fails at one of the first MaxScanned rows of a result, or at none
MaxScanned == 2
\* feed requests of a client that pages
MaxPages == 3
\* requests about one hash that the server handles at the same time
MaxRequests == 3

\* ---------------------------------------------------------------- constants
defaultPage == 12

ReactionKinds == {"Like", "Perplexed"}

Titles == {"Dawn", "Dusk"}

VARIABLES
    artworks,     \* table artworks: id (hash) -> row, for the rows that exist
    blobs,        \* images directory: hash -> "ok" | "partial", for the files that exist
    comments,     \* table artwork_comments
    reactions,    \* table artwork_feedback
    followers,    \* table followers: set of <<follower, target>>
    bans,         \* table bans: set of <<source, target>>
    clock,        \* the second ntime.Now() reads
    nextComment,  \* number of comment ids handed out
    resp,         \* the last request and its response
    pending       \* the reconciliation, the uploads, the deletions and the paging of a
                  \* client that are under way, step by step

vars == <<artworks, blobs, comments, reactions, followers, bans, clock, nextComment, resp, pending>>

Row(author, added) ==
    [author |-> author, added |-> added, updated |-> added, title |-> "NULL", deleted |-> FALSE]

\* the relational store as one value, so that a statement maps a store to a store
DB == [artworks |-> artworks, comments |-> comments, reactions |-> reactions]

NoStream == [Artworks |-> <<>>, NewArtworks |-> <<>>, DeletedIds |-> <<>>]

\* the Artwork that GetArtworkData returns with ErrNotFound
NoArtwork ==
    [author |-> "none", followsUser |-> FALSE, followedByUser |-> FALSE, added |-> 0,
     comments |-> 0, reactions |-> 0]

\* the UserArtworks without entries
NoListing == [Requested |-> <<>>, New |-> <<>>, Deleted |-> <<>>]

\* a response; the fields a request does not use keep their defaults
Resp(op, user, hash, status) ==
    [op |-> op, user |-> user, hash |-> hash, status |-> status,
     existsImage |-> FALSE, reaction |-> "none", artwork |-> NoArtwork,
     since |-> 0, latest |-> 0, stream |-> NoStream, artist |-> "none", listing |-> NoListing,
     failed |-> 0]

\* no reconciliation and no upload is under way: the handlers that run as one
\* step leave it so
NoPending ==
    [job    |-> [pc |-> "idle", files |-> <<>>],
     upload |-> [pc |-> "idle", user |-> "none", hash |-> 0, existsImage |-> FALSE,
                 status |-> "none", resurrects |-> FALSE],
     pager  |-> [pc |-> "idle", user |-> "none", since |-> 0, latest |-> 0, seen |-> <<>>,
                 held |-> {}, pages |-> 0],
     requests |-> <<>>, rowOf |-> 0]

DeleteRows_NoCascade(db, ids) ==
    [artworks  |-> [h \in DOMAIN db.artworks \ ids |-> db.artworks[h]],
     comments  |-> db.comments,
     reactions |-> db.reactions]

\* DELETE FROM artworks WHERE id IN ids, with the ON DELETE CASCADE of
\* artwork_comments.artwork_fk and artwork_feedback.artwork_fk
DeleteRows(db, ids) ==
    [artworks  |-> [h \in DOMAIN db.artworks \ ids |-> db.artworks[h]],
     comments  |-> {c \in db.comments : c.artwork \notin ids},
     reactions |-> {r \in db.reactions : r.artwork \notin ids}]

\* ---------------------------------------------------------------- store
CleanDeletedArtwork_NoDeletedTest(db, artworkId, userId) ==
    LET hit == /\ artworkId \in DOMAIN db.artworks
               /\ db.artworks[artworkId].author = userId
    IN  [db |-> IF hit THEN DeleteRows(db, {artworkId}) ELSE db, deleted |-> hit]

CleanDeletedArtwork_AnyAuthor(db, artworkId, userId) ==
    LET hit == /\ artworkId \in DOMAIN db.artworks
               /\ db.artworks[artworkId].deleted
    IN  [db |-> IF hit THEN DeleteRows(db, {artworkId}) ELSE db, deleted |-> hit]

CleanDeletedArtwork_NoDelete(db, artworkId, userId) ==
    LET hit == /\ artworkId \in DOMAIN db.artworks
               /\ db.artworks[artworkId].author = userId
               /\ db.artworks[artworkId].deleted
    IN  [db |-> db, deleted |-> hit]

\* DELETE FROM artworks WHERE id = ? AND author_id = ? AND deleted; reports
\* whether one row was deleted
CleanDeletedArtwork(db, artworkId, userId) ==
    LET hit == /\ artworkId \in DOMAIN db.artworks
               /\ db.artworks[artworkId].author = userId
               /\ db.artworks[artworkId].deleted
    IN  [db |-> IF hit THEN DeleteRows(db, {artworkId}) ELSE db, deleted |-> hit]

\* the table with the row of id inserted or replaced
WithRow(db, id, row) ==
    [db EXCEPT !.artworks = [h \in DOMAIN @ \cup {id} |-> IF h = id THEN row ELSE @[h]]]

AddArtwork_Replace(db, id, authorId, now) ==
    [db |-> WithRow(db, id, Row(authorId, now)), err |-> "nil"]

\* INSERT INTO artworks(id, ..., author_id, added, updated); the primary key
\* violation is ErrDupArtwork
AddArtwork(db, id, authorId, now) ==
    IF id \in DOMAIN db.artworks
    THEN [db |-> db, err |-> "ErrDupArtwork"]
    ELSE [db |-> WithRow(db, id, Row(authorId, now)), err |-> "nil"]

\* DELETE FROM artworks WHERE id = ? AND author_id = ?
CleanArtwork(db, artworkId, userId) ==
    IF artworkId \in DOMAIN db.artworks /\ db.artworks[artworkId].author = userId
    THEN DeleteRows(db, {artworkId})
    ELSE db

DeleteArtwork_AnyUser(db, artworkId, userId) ==
    LET hit == /\ artworkId \in DOMAIN db.artworks
               /\ ~db.artworks[artworkId].deleted
    IN  [db  |-> IF hit THEN [db EXCEPT !.artworks[artworkId].deleted = TRUE] ELSE db,
         err |-> IF hit THEN "nil" ELSE "ErrNotFound"]

\* UPDATE artworks SET deleted = TRUE WHERE id = ? AND author_id = ? AND NOT deleted;
\* no row affected is ErrNotFound
DeleteArtwork(db, artworkId, userId) ==
    LET hit == /\ artworkId \in DOMAIN db.artworks
               /\ db.artworks[artworkId].author = userId
               /\ ~db.artworks[artworkId].deleted
    IN  [db  |-> IF hit THEN [db EXCEPT !.artworks[artworkId].deleted = TRUE] ELSE db,
         err |-> IF hit THEN "nil" ELSE "ErrNotFound"]

\* UPDATE artworks SET title = ? WHERE id = ? AND author_id = ?; no row affected
\* is ErrNotModified.  The only trigger of the schema, set_user_timestamp, is
\* on the table users: no statement sets artworks.updated after the INSERT
SetArtworkTitle(db, artworkId, userId, newTitle) ==
    IF artworkId \in DOMAIN db.artworks /\ db.artworks[artworkId].author = userId
    THEN [db  |-> [db EXCEPT !.artworks[artworkId].title = newTitle], err |-> "nil"]
    ELSE [db |-> db, err |-> "ErrNotModified"]

\* INSERT INTO artwork_comments (id, artwork, user, comment, date); the foreign
\* key artwork_fk rejects a comment on a missing row
AddComment(db, id, userId, artworkId) ==
    IF artworkId \notin DOMAIN db.artworks
    THEN [db |-> db, err |-> "ForeignKey"]
    ELSE [db  |-> [db EXCEPT !.comments = @ \cup {[id |-> id, artwork |-> artworkId, user |-> userId]}],
          err |-> "nil"]

\* DELETE FROM artwork_comments WHERE id = ? AND user = ?; no row affected is
\* ErrNotFound
DeleteComment(db, userId, commentId) ==
    LET own == {c \in db.comments : c.id = commentId /\ c.user = userId}
    IN  IF own = {}
        THEN [db |-> db, err |-> "ErrNotFound"]
        ELSE [db |-> [db EXCEPT !.comments = @ \ own], err |-> "nil"]

SetReaction_AlwaysUpdates(db, userId, artworkId, date, reaction) ==
    LET old == {r \in db.reactions : r.artwork = artworkId /\ r.user = userId}
        new == [artwork |-> artworkId, user |-> userId, reaction |-> reaction, date |-> date]
    IN  IF artworkId \notin DOMAIN db.artworks
        THEN [db |-> db, err |-> "ForeignKey"]
        ELSE [db |-> [db EXCEPT !.reactions = (@ \ old) \cup {new}], err |-> "nil"]

\* INSERT INTO artwork_feedback ... ON CONFLICT (artwork, user) DO UPDATE SET
\* reaction = ?, date = ? WHERE reaction != ?; no row affected is ErrNotModified
SetReaction(db, userId, artworkId, date, reaction) ==
    LET old == {r \in db.reactions : r.artwork = artworkId /\ r.user = userId}
        new == [artwork |-> artworkId, user |-> userId, reaction |-> reaction, date |-> date]
    IN  IF artworkId \notin DOMAIN db.artworks
        THEN [db |-> db, err |-> "ForeignKey"]
        ELSE IF \E r \in old : r.reaction = reaction
        THEN [db |-> db, err |-> "ErrNotModified"]
        ELSE [db |-> [db EXCEPT !.reactions = (@ \ old) \cup {new}], err |-> "nil"]

\* the orders in which a statement may return the rows of ids
Orders(ids) ==
    {o \in [1..Cardinality(ids) -> ids] : \A i, j \in DOMAIN o : i # j => o[i] # o[j]}

\* the loop of cleanRemovedArtworks over the returned rows: os.Remove of each
\* file in turn, stopping at the first error (the file does not exist)
RECURSIVE RemoveFiles(_, _)
RemoveFiles(bl, order) ==
    IF order = <<>>
    THEN [blobs |-> bl, err |-> "nil"]
    ELSE IF Head(order) \notin DOMAIN bl
    THEN [blobs |-> bl, err |-> "ENOENT"]
    ELSE RemoveFiles([h \in DOMAIN bl \ {Head(order)} |-> bl[h]], Tail(order))

DeletedIds(db) == {h \in DOMAIN db.artworks : db.artworks[h].deleted}

cleanRemovedArtworks_KeepFiles(db, bl, order) ==
    [db |-> DeleteRows(db, DeletedIds(db)), blobs |-> bl, err |-> "nil"]

\* DELETE FROM artworks WHERE deleted = TRUE RETURNING id, format, then the
\* removal of the returned files; order is the order the rows are returned in
cleanRemovedArtworks(db, bl, order) ==
    LET f == RemoveFiles(bl, order)
    IN  [db |-> DeleteRows(db, DeletedIds(db)), blobs |-> f.blobs, err |-> f.err]

\* outcomes of writeImage: "ok"; "create" (os.Create fails, the path is left as
\* it was); "copy" (file created or truncated, Seek or io.Copy fails, or no
\* byte is written)
WriteOutcomes == {"ok", "create", "copy"}

writeImage(bl, checksum, outcome) ==
    LET file(content) == [h \in DOMAIN bl \cup {checksum} |-> IF h = checksum THEN content ELSE bl[h]]
    IN  CASE outcome = "ok"     -> file("ok")
          [] outcome = "create" -> bl
          [] outcome = "copy"   -> file("partial")

\* ---------------------------------------------------------------- relations
Relations == [followers |-> followers, bans |-> bans]

\* INSERT INTO followers ... SELECT ... WHERE ? NOT IN (SELECT target FROM bans
\* WHERE source = targetId): no row when the target bans the follower
\* (ErrNotFound), primary key violation when already following (ErrDupFollower)
Follow(rel, followerId, target) ==
    IF <<target, followerId>> \in rel.bans
    THEN [rel |-> rel, err |-> "ErrNotFound"]
    ELSE IF <<followerId, target>> \in rel.followers
    THEN [rel |-> rel, err |-> "ErrDupFollower"]
    ELSE [rel |-> [rel EXCEPT !.followers = @ \cup {<<followerId, target>>}], err |-> "nil"]

\* DELETE FROM followers WHERE follower = ? AND target = ...
Unfollow(rel, followerId, target) ==
    IF <<followerId, target>> \in rel.followers
    THEN [rel |-> [rel EXCEPT !.followers = @ \ {<<followerId, target>>}], err |-> "nil"]
    ELSE [rel |-> rel, err |-> "ErrNotFound"]

Ban_KeepsFollow(rel, sourceId, target) ==
    IF <<sourceId, target>> \in rel.bans
    THEN [rel |-> rel, err |-> "ErrDupBan"]
    ELSE [rel |-> [followers |-> rel.followers,
                   bans |-> rel.bans \cup {<<sourceId, target>>}],
          err |-> "nil"]

\* one transaction: DELETE the target's follow of the source, INSERT the ban;
\* the primary key violation (ErrDupBan) rolls the transaction back
Ban(rel, sourceId, target) ==
    IF <<sourceId, target>> \in rel.bans
    THEN [rel |-> rel, err |-> "ErrDupBan"]
    ELSE [rel |-> [followers |-> rel.followers \ {<<target, sourceId>>},
                   bans |-> rel.bans \cup {<<sourceId, target>>}],
          err |-> "nil"]

\* DELETE FROM bans WHERE source = ? AND target = ...
Unban(rel, sourceId, target) ==
    IF <<sourceId, target>> \in rel.bans
    THEN [rel |-> [rel EXCEPT !.bans = @ \ {<<sourceId, target>>}], err |-> "nil"]
    ELSE [rel |-> rel, err |-> "ErrNotFound"]

\* ---------------------------------------------------------------- metadata
GetArtworkData_NoBanTest(db, rel, artworkId, requesterId) ==
    IF /\ artworkId \in DOMAIN db.artworks
       /\ ~db.artworks[artworkId].deleted
    THEN LET row == db.artworks[artworkId]
         IN  [artwork |-> [author         |-> row.author,
                           followsUser    |-> <<row.author, requesterId>> \in rel.followers,
                           followedByUser |-> <<requesterId, row.author>> \in rel.followers,
                           added          |-> row.added,
                           comments       |-> Cardinality({c \in db.comments : c.artwork = artworkId}),
                           reactions      |-> Cardinality({r \in db.reactions : r.artwork = artworkId})],
              err |-> "nil"]
    ELSE [artwork |-> NoArtwork, err |-> "ErrNotFound"]

\* SELECT ... FROM artworks JOIN users ... WHERE artworks.id = ? AND NOT deleted
\* AND ? NOT IN (SELECT target FROM bans WHERE source = artworks.author_id);
\* sql.ErrNoRows is ErrNotFound
GetArtworkData(db, rel, artworkId, requesterId) ==
    IF /\ artworkId \in DOMAIN db.artworks
       /\ ~db.artworks[artworkId].deleted
       /\ <<db.artworks[artworkId].author, requesterId>> \notin rel.bans
    THEN LET row == db.artworks[artworkId]
         IN  [artwork |-> [author         |-> row.author,
                           followsUser    |-> <<row.author, requesterId>> \in rel.followers,
                           followedByUser |-> <<requesterId, row.author>> \in rel.followers,
                           added          |-> row.added,
                           comments       |-> Cardinality({c \in db.comments : c.artwork = artworkId}),
                           reactions      |-> Cardinality({r \in db.reactions : r.artwork = artworkId})],
              err |-> "nil"]
    ELSE [artwork |-> NoArtwork, err |-> "ErrNotFound"]

\* SELECT format FROM artworks WHERE id = ? AND NOT deleted AND ? NOT IN
\* (SELECT target FROM bans WHERE source = artworks.author_id); the error of
\* Scan is returned as it is, sql.ErrNoRows when no row is selected
GetImageMetadata(db, rel, artworkId, requesterId) ==
    IF /\ artworkId \in DOMAIN db.artworks
       /\ ~db.artworks[artworkId].deleted
       /\ <<db.artworks[artworkId].author, requesterId>> \notin rel.bans
    THEN [err |-> "nil"]
    ELSE [err |-> "sql.ErrNoRows"]

\* ---------------------------------------------------------------- feed
\* ORDER BY added DESC leaves the order of rows of equal added to the query
\* plan; tie names the two plans modelled, ascending and descending id
TieOrders == {"asc", "desc"}

Before(db, a, b, tie) ==
    \/ db.artworks[a].added > db.artworks[b].added
    \/ /\ db.artworks[a].added = db.artworks[b].added
       /\ IF tie = "asc" THEN a < b ELSE a > b

\* the rows of ids in the order ORDER BY added DESC returns them
OrderByAddedDesc(db, ids, tie) ==
    LET selected(h) == h \in ids
        before(a, b) == Before(db, a, b, tie)
    IN  SortSeq(SelectSeq([h \in Hashes |-> h], selected), before)

\* LIMIT n
Limit(rows, n) == SubSeq(rows, 1, IF Len(rows) < n THEN Len(rows) ELSE n)

\* Store.GetStream(userId, since, latest): the query and the loop that sorts
\* its rows into the three collections.  The arguments are bound to the
\* placeholders in the order since, userId, latest, since, latest, since, and
\* AND binds tighter than OR in the WHERE clause.  An entry stands for its row
\* (id, title, author, format, added and the two counts).  fail is the row at
\* which rows.Scan returns an error, 0 or a number beyond the rows for none: the
\* function then returns its named result data, which was never assigned.
GetStream(db, rel, userId, since, latest, tie, fail) ==
    LET row(h) == db.artworks[h]
        new(h) == row(h).added > since
        selected == {h \in DOMAIN db.artworks :
                        \/ /\ <<userId, row(h).author>> \in rel.followers
                           /\ row(h).added < latest /\ ~row(h).deleted
                        \/ row(h).added > since /\ ~row(h).deleted
                        \/ row(h).deleted /\ row(h).added > latest /\ row(h).added < since}
        rows == Limit(OrderByAddedDesc(db, selected, tie), defaultPage)
        isRecent(h) == new(h)
        isDeleted(h) == ~new(h) /\ row(h).deleted
        isDefault(h) == ~new(h) /\ ~row(h).deleted
    IN  IF fail \in 1..Len(rows)
        THEN [data |-> NoStream, err |-> "Scan"]
        ELSE [data |-> [Artworks    |-> SelectSeq(rows, isDefault),
                        NewArtworks |-> SelectSeq(rows, isRecent),
                        DeletedIds  |-> SelectSeq(rows, isDeleted)],
              err  |-> "nil"]

\* Store.GetUserArtworks(targetAlias, requesterId, pageData): the arguments are
\* bound in the order latest, targetAlias, requesterId, since, latest, latest,
\* since, pageSize, so that new is added > latest, and AND binds tighter than
\* OR: the tests of the author and of the ban belong to the first alternative
\* only.  The loop puts a row that is new in New whether it is deleted or not,
\* and returns UserArtworks{} with the error of a rows.Scan that fails at row
\* fail.
GetUserArtworks(db, rel, targetAlias, requesterId, since, latest, pageSize, tie, fail) ==
    LET row(h) == db.artworks[h]
        new(h) == row(h).added > latest
        selected == {h \in DOMAIN db.artworks :
                        \/ /\ row(h).author = targetAlias
                           /\ <<row(h).author, requesterId>> \notin rel.bans
                           /\ ~row(h).deleted /\ row(h).added < since
                        \/ ~row(h).deleted /\ row(h).added > latest
                        \/ row(h).deleted /\ row(h).added > latest /\ row(h).added < since}
        rows == Limit(OrderByAddedDesc(db, selected, tie), pageSize)
        isNew(h) == new(h)
        wasDeleted(h) == ~new(h) /\ row(h).deleted
        isRequested(h) == ~new(h) /\ ~row(h).deleted
    IN  IF fail \in 1..Len(rows)
        THEN [data |-> NoListing, err |-> "Scan"]
        ELSE [data |-> [Requested |-> SelectSeq(rows, isRequested),
                        New       |-> SelectSeq(rows, isNew),
                        Deleted   |-> SelectSeq(rows, wasDeleted)],
              err  |-> "nil"]

\* ---------------------------------------------------------------- handlers
\* the process serves requests unless NewStore panicked
Up == ~(resp.op = "NewStore" /\ resp.status = "panic")

Commit(db) ==
    /\ artworks' = db.artworks
    /\ comments' = db.comments
    /\ reactions' = db.reactions

\* POST /artworks by user with the payload whose hash is checksum; write is the
\* outcome of writeImage and cleaned tells whether the compensation succeeds
addArtwork(user, checksum, write, cleaned) ==
    LET c == CleanDeletedArtwork(DB, checksum, user)
        a == AddArtwork(c.db, checksum, user, clock)
        r == [Resp("addArtwork", user, checksum, "Created") EXCEPT !.existsImage = c.deleted]
    IN  /\ Up
        \* write and cleaned are drawn only where the handler reaches the call
        /\ (a.err # "nil" \/ c.deleted) => write = "ok"
        /\ write = "ok" => cleaned
        /\ IF a.err = "ErrDupArtwork"
           THEN /\ Commit(a.db)
                /\ blobs' = blobs
                /\ resp' = [r EXCEPT !.status = "BadRequest"]
           ELSE IF c.deleted
           THEN /\ Commit(a.db)
                /\ blobs' = blobs
                /\ resp' = r
           ELSE IF write = "ok"
           THEN /\ Commit(a.db)
                /\ blobs' = writeImage(blobs, checksum, write)
                /\ resp' = r
           ELSE /\ Commit(IF cleaned THEN CleanArtwork(a.db, checksum, user) ELSE a.db)
                /\ blobs' = writeImage(blobs, checksum, write)
                /\ resp' = [r EXCEPT !.status = "InternalServerError"]
        /\ UNCHANGED <<followers, bans, clock, nextComment, pending>>

\* DELETE /artworks/:artworkId
deleteArtwork(user, artworkId) ==
    LET d == DeleteArtwork(DB, artworkId, user)
    IN  /\ Up
        /\ Commit(d.db)
        /\ resp' = Resp("deleteArtwork", user, artworkId,
                        IF d.err = "nil" THEN "NoContent" ELSE "BadRequest")
        /\ UNCHANGED <<blobs, followers, bans, clock, nextComment, pending>>

\* artworks.NewStore at process start: reconciliation, panic on its error
NewStore(order) ==
    LET c == cleanRemovedArtworks(DB, blobs, order)
    IN  /\ order \in Orders(DeletedIds(DB))
        /\ Commit(c.db)
        /\ blobs' = c.blobs
        /\ resp' = Resp("NewStore", "none", 0, IF c.err = "nil" THEN "ok" ELSE "panic")
        /\ UNCHANGED <<followers, bans, clock, nextComment, pending>>

\* POST /artworks/:artworkId/comments
addComment(user, artworkId) ==
    LET a == AddComment(DB, nextComment + 1, user, artworkId)
    IN  /\ Up
        /\ nextComment < MaxComments
        /\ Commit(a.db)
        /\ nextComment' = IF a.err = "nil" THEN nextComment + 1 ELSE nextComment
        /\ resp' = Resp("addComment", user, artworkId,
                        IF a.err = "nil" THEN "Created" ELSE "InternalServerError")
        /\ UNCHANGED <<blobs, followers, bans, clock, pending>>

\* DELETE /artworks/:artworkId/comments/:commentId; the response names the
\* comment where the others name the artwork
deleteComment(user, commentId) ==
    LET d == DeleteComment(DB, user, commentId)
    IN  /\ Up
        /\ Commit(d.db)
        /\ resp' = Resp("deleteComment", user, commentId,
                        IF d.err = "nil" THEN "NoContent" ELSE "NotFound")
        /\ UNCHANGED <<blobs, followers, bans, clock, nextComment, pending>>

\* PUT /artworks/:artworkId/reactions/:alias
setReaction(user, artworkId, reaction) ==
    LET s == SetReaction(DB, user, artworkId, clock, reaction)
    IN  /\ Up
        /\ s.err = "nil" => Cardinality(s.db.reactions) <= MaxReactions
        /\ Commit(s.db)
        /\ resp' = [Resp("setReaction", user, artworkId,
                         CASE s.err = "nil" -> "changed"
                           [] s.err = "ErrNotModified" -> "unchanged"
                           [] OTHER -> "InternalServerError")
                        EXCEPT !.reaction = reaction]
        /\ UNCHANGED <<blobs, followers, bans, clock, nextComment, pending>>

CommitRelations(rel) ==
    /\ followers' = rel.followers
    /\ bans' = rel.bans

RelationStatus(err, ok) ==
    CASE err = "nil" -> ok
      [] err = "ErrNotFound" -> "NotFound"
      [] OTHER -> "BadRequest"

\* POST /users/:alias/followed
followUser(follower, target) ==
    LET f == Follow(Relations, follower, target)
    IN  /\ Up
        /\ IF follower = target
           THEN /\ UNCHANGED <<followers, bans>>
                /\ resp' = Resp("followUser", follower, 0, "BadRequest")
           ELSE /\ CommitRelations(f.rel)
                /\ resp' = Resp("followUser", follower, 0, RelationStatus(f.err, "Created"))
        /\ UNCHANGED <<artworks, blobs, comments, reactions, clock, nextComment, pending>>

\* DELETE /users/:alias/followed/:target
unfollowUser(follower, target) ==
    LET f == Unfollow(Relations, follower, target)
    IN  /\ Up
        /\ IF follower = target
           THEN /\ UNCHANGED <<followers, bans>>
                /\ resp' = Resp("unfollowUser", follower, 0, "BadRequest")
           ELSE /\ CommitRelations(f.rel)
                /\ resp' = Resp("unfollowUser", follower, 0,
                                IF f.err = "nil" THEN "NoContent" ELSE "BadRequest")
        /\ UNCHANGED <<artworks, blobs, comments, reactions, clock, nextComment, pending>>

\* POST /users/:alias/bans
banUser(source, target) ==
    LET b == Ban(Relations, source, target)
    IN  /\ Up
        /\ IF source = target
           THEN /\ UNCHANGED <<followers, bans>>
                /\ resp' = Resp("banUser", source, 0, "BadRequest")
           ELSE /\ CommitRelations(b.rel)
                /\ resp' = Resp("banUser", source, 0,
                                IF b.err = "nil" THEN "Created" ELSE "BadRequest")
        /\ UNCHANGED <<artworks, blobs, comments, reactions, clock, nextComment, pending>>

\* DELETE /users/:alias/bans/:target
unbanUser(source, target) ==
    LET b == Unban(Relations, source, target)
    IN  /\ Up
        /\ IF source = target
           THEN /\ UNCHANGED <<followers, bans>>
                /\ resp' = Resp("unbanUser", source, 0, "BadRequest")
           ELSE /\ CommitRelations(b.rel)
                /\ resp' = Resp("unbanUser", source, 0,
                                IF b.err = "nil" THEN "NoContent" ELSE "BadRequest")
        /\ UNCHANGED <<artworks, blobs, comments, reactions, clock, nextComment, pending>>

\* what getArtworkData writes for the result g of GetArtworkData
ArtworkDataResponse(user, artworkId, g) ==
    [Resp("getArtworkData", user, artworkId, IF g.err = "nil" THEN "Ok" ELSE "NotFound")
        EXCEPT !.artwork = g.artwork]

\* GET /artworks/:artworkId/data
getArtworkData(user, artworkId) ==
    /\ Up
    /\ resp' = ArtworkDataResponse(user, artworkId, GetArtworkData(DB, Relations, artworkId, user))
    /\ UNCHANGED <<artworks, blobs, comments, reactions, followers, bans, clock, nextComment, pending>>

\* GET /artworks/:artworkId/image: http.ServeFile answers with the file, or
\* with its own 404 when the file is not there
getArtworkImage(user, artworkId) ==
    LET g == GetImageMetadata(DB, Relations, artworkId, user)
    IN  /\ Up
        /\ resp' = Resp("getArtworkImage", user, artworkId,
                        CASE g.err = "nil" ->
                                IF artworkId \in DOMAIN blobs THEN "Ok" ELSE "ServeFileNotFound"
                          [] g.err = "ErrNotFound" -> "NotFound"
                          [] OTHER -> "InternalServerError")
        /\ UNCHANGED <<artworks, blobs, comments, reactions, followers, bans, clock, nextComment, pending>>

\* PUT /artworks/:artworkId/title
setTitle(user, artworkId, title) ==
    LET s == SetArtworkTitle(DB, artworkId, user, title)
    IN  /\ Up
        /\ Commit(s.db)
        /\ resp' = Resp("setTitle", user, artworkId,
                        IF s.err = "nil" THEN "NoContent" ELSE "NotFound")
        /\ UNCHANGED <<blobs, followers, bans, clock, nextComment, pending>>

\* GET /artworks?artist=&since=&latest=
getArtworks(user, artist, since, latest, tie, fail) ==
    LET g == GetUserArtworks(DB, Relations, artist, user, since, latest, defaultPage, tie, fail)
    IN  /\ Up
        /\ resp' = [Resp("getArtworks", user, 0,
                         IF g.err = "nil" THEN "Ok" ELSE "InternalServerError") EXCEPT
                        !.artist = artist, !.since = since, !.latest = latest,
                        !.listing = g.data, !.failed = IF g.err = "nil" THEN 0 ELSE fail]
    /\ UNCHANGED <<artworks, blobs, comments, reactions, followers, bans, clock, nextComment, pending>>

\* GET /users/:alias/stream?since=&latest=; stream is what GetStream returned
\* and failed the row whose Scan failed, which the response does not show
getStream(user, since, latest, tie, fail) ==
    LET g == GetStream(DB, Relations, user, since, latest, tie, fail)
    IN  /\ Up
        /\ resp' = [Resp("getStream", user, 0,
                         IF g.err = "nil" THEN "Ok" ELSE "InternalServerError") EXCEPT
                        !.since = since, !.latest = latest,
                        !.stream = g.data, !.failed = IF g.err = "nil" THEN 0 ELSE fail]
    /\ UNCHANGED <<artworks, blobs, comments, reactions, followers, bans, clock, nextComment, pending>>

\* ---------------------------------------------------------------- steps
\* The reconciliation of one process and the upload handler of another, each
\* taken statement by statement.  cleanRemovedArtworks removes the files inside
\* its loop over the rows of DELETE ... RETURNING: the statement deletes every
\* row at the first rows.Next and finishes, releasing the database, when
\* rows.Next returns false or the rows are closed.  Until then the statements
\* of other connections that write wait, or give up with "database is locked".
Locked_Never(p) == FALSE

Locked(p) == p.job.pc = "remove"

\* rows.Next for the first time: every soft-deleted row is deleted; order is
\* the order the rows are returned in, and with no row the statement is over
JobDelete(order) ==
    /\ pending.job.pc = "idle"
    /\ order \in Orders(DeletedIds(DB))
    /\ Commit(DeleteRows(DB, DeletedIds(DB)))
    /\ pending' = [pending EXCEPT !.job = [pc    |-> IF order = <<>> THEN "done" ELSE "remove",
                                           files |-> order]]
    /\ UNCHANGED <<blobs, followers, bans, clock, nextComment, resp>>

\* os.Remove of the file of the next returned row; its error ends the loop
JobRemove ==
    LET f == Head(pending.job.files)
    IN  /\ pending.job.pc = "remove"
        /\ pending.job.files # <<>>
        /\ IF f \in DOMAIN blobs
           THEN /\ blobs' = [h \in DOMAIN blobs \ {f} |-> blobs[h]]
                /\ pending' = [pending EXCEPT !.job.files = Tail(@)]
           ELSE /\ blobs' = blobs
                /\ pending' = [pending EXCEPT !.job.pc = "failed"]
        /\ UNCHANGED <<artworks, comments, reactions, followers, bans, clock, nextComment, resp>>

\* rows.Next returns false
JobDone ==
    /\ pending.job.pc = "remove"
    /\ pending.job.files = <<>>
    /\ pending' = [pending EXCEPT !.job.pc = "done"]
    /\ UNCHANGED <<artworks, blobs, comments, reactions, followers, bans, clock, nextComment, resp>>

\* the upload has answered with status
Answered(status) ==
    [pending EXCEPT !.upload.pc = "done", !.upload.status = status]

\* addArtwork up to CleanDeletedArtwork
UploadClean ==
    LET u == pending.upload
        c == CleanDeletedArtwork(DB, u.hash, u.user)
    IN  /\ u.pc = "clean"
        /\ IF Locked(pending)
           THEN /\ UNCHANGED <<artworks, comments, reactions>>
                /\ pending' = Answered("InternalServerError")
           ELSE /\ Commit(c.db)
                /\ pending' = [pending EXCEPT !.upload.pc = "insert",
                                              !.upload.existsImage = c.deleted]
        /\ UNCHANGED <<blobs, followers, bans, clock, nextComment, resp>>

\* addArtwork from AddArtwork to the test of existsImage
UploadInsert ==
    LET u == pending.upload
        a == AddArtwork(DB, u.hash, u.user, clock)
    IN  /\ u.pc = "insert"
        /\ IF Locked(pending)
           THEN /\ UNCHANGED <<artworks, comments, reactions>>
                /\ pending' = Answered("InternalServerError")
           ELSE /\ Commit(a.db)
                /\ pending' = IF a.err = "ErrDupArtwork" THEN Answered("BadRequest")
                              ELSE IF u.existsImage THEN Answered("Created")
                              ELSE [pending EXCEPT !.upload.pc = "write"]
        /\ UNCHANGED <<blobs, followers, bans, clock, nextComment, resp>>

\* writeImage
UploadWrite(write) ==
    /\ pending.upload.pc = "write"
    /\ blobs' = writeImage(blobs, pending.upload.hash, write)
    /\ pending' = IF write = "ok" THEN Answered("Created")
                  ELSE [pending EXCEPT !.upload.pc = "compensate"]
    /\ UNCHANGED <<artworks, comments, reactions, followers, bans, clock, nextComment, resp>>

\* the compensating CleanArtwork, whose error is discarded
UploadCompensate(cleaned) ==
    LET u == pending.upload
    IN  /\ u.pc = "compensate"
        /\ Locked(pending) => ~cleaned
        /\ Commit(IF cleaned THEN CleanArtwork(DB, u.hash, u.user) ELSE DB)
        /\ pending' = Answered("InternalServerError")
        /\ UNCHANGED <<blobs, followers, bans, clock, nextComment, resp>>

\* The handlers of several requests about the hash Contended, each in its own
\* goroutine, taken statement by statement; rowOf is the request whose INSERT
\* made the row that is there.
Contended == 1

\* request i has answered with status
Replied(i, status) ==
    [pending EXCEPT !.requests[i].pc = "done", !.requests[i].status = status]

\* addArtwork of request i up to CleanDeletedArtwork
RequestClean(i) ==
    LET r == pending.requests[i]
        c == CleanDeletedArtwork(DB, Contended, r.user)
    IN  /\ r.pc = "clean"
        /\ Commit(c.db)
        /\ pending' = [pending EXCEPT !.requests[i].pc = "insert",
                                      !.requests[i].existsImage = c.deleted,
                                      !.rowOf = IF c.deleted THEN 0 ELSE @]
        /\ UNCHANGED <<blobs, followers, bans, clock, nextComment, resp>>

\* addArtwork of request i from AddArtwork to the test of existsImage
RequestInsert(i) ==
    LET r == pending.requests[i]
        a == AddArtwork(DB, Contended, r.user, clock)
    IN  /\ r.pc = "insert"
        /\ Commit(a.db)
        /\ pending' = IF a.err = "ErrDupArtwork" THEN Replied(i, "BadRequest")
                      ELSE IF r.existsImage
                      THEN [Replied(i, "Created") EXCEPT !.rowOf = i]
                      ELSE [pending EXCEPT !.requests[i].pc = "write", !.rowOf = i]
        /\ UNCHANGED <<blobs, followers, bans, clock, nextComment, resp>>

\* writeImage of request i
RequestWrite(i, write) ==
    /\ pending.requests[i].pc = "write"
    /\ blobs' = writeImage(blobs, Contended, write)
    /\ pending' = IF write = "ok" THEN Replied(i, "Created")
                  ELSE [pending EXCEPT !.requests[i].pc = "compensate"]
    /\ UNCHANGED <<artworks, comments, reactions, followers, bans, clock, nextComment, resp>>

\* the compensating CleanArtwork of request i, whose error is discarded
RequestCompensate(i, cleaned) ==
    LET r == pending.requests[i]
        d == IF cleaned THEN CleanArtwork(DB, Contended, r.user) ELSE DB
    IN  /\ r.pc = "compensate"
        /\ Commit(d)
        /\ pending' = [Replied(i, "InternalServerError") EXCEPT
                            !.rowOf = IF Contended \in DOMAIN d.artworks THEN @ ELSE 0]
        /\ UNCHANGED <<blobs, followers, bans, clock, nextComment, resp>>

\* deleteArtwork of request i
RequestDelete(i) ==
    LET r == pending.requests[i]
        d == DeleteArtwork(DB, Contended, r.user)
    IN  /\ r.pc = "delete"
        /\ Commit(d.db)
        /\ pending' = Replied(i, IF d.err = "nil" THEN "NoContent" ELSE "BadRequest")
        /\ UNCHANGED <<blobs, followers, bans, clock, nextComment, resp>>

\* the smallest and the largest added timestamp of the artworks ids
Oldest(ids) == CHOOSE t \in {artworks[h].added : h \in ids} :
                    \A h \in ids : t <= artworks[h].added
Newest(ids) == CHOOSE t \in {artworks[h].added : h \in ids} :
                    \A h \in ids : t >= artworks[h].added

\* the next feed request of a client that pages: since is the smallest added
\* timestamp of the Artworks of the previous response and latest the newest
\* timestamp among the artworks the client holds, both the time of the first
\* request at the start; the client stops at a response without Artworks
Page(tie) ==
    LET p       == pending.pager
        g       == GetStream(DB, Relations, p.user, p.since, p.latest, tie, 0)
        page    == g.data.Artworks
        ids     == {page[i] : i \in DOMAIN page}
        newIds  == {g.data.NewArtworks[i] : i \in DOMAIN g.data.NewArtworks}
        held    == p.held \cup ids \cup newIds
    IN  /\ Up
        /\ p.pc = "paging"
        /\ p.pages < MaxPages
        /\ resp' = [Resp("getStream", p.user, 0, "Ok") EXCEPT
                        !.since = p.since, !.latest = p.latest, !.stream = g.data]
        /\ pending' = [pending EXCEPT
                        !.pager.pc     = IF page = <<>> THEN "done" ELSE "paging",
                        !.pager.seen   = @ \o page,
                        !.pager.held   = held,
                        !.pager.since  = IF page = <<>> THEN @ ELSE Oldest(ids),
                        !.pager.latest = IF held = {} THEN @ ELSE Newest(held),
                        !.pager.pages  = @ + 1]
        /\ UNCHANGED <<artworks, blobs, comments, reactions, followers, bans, clock, nextComment>>

\* a second passes
Tick ==
    /\ clock < MaxClock
    /\ clock' = clock + 1
    /\ UNCHANGED <<artworks, blobs, comments, reactions, followers, bans, nextComment, resp, pending>>

Init ==
    /\ artworks = <<>>
    /\ blobs = <<>>
    /\ comments = {}
    /\ reactions = {}
    /\ followers = {}
    /\ bans = {}
    /\ clock = 1
    /\ nextComment = 0
    /\ resp = Resp("none", "none", 0, "none")
    /\ pending = NoPending

\* uploads, deletions and restarts, all within one second
Next ==
    \/ \E u \in Users, h \in Payloads, w \in WriteOutcomes, c \in BOOLEAN : addArtwork(u, h, w, c)
    \/ \E u \in Users, h \in Payloads : deleteArtwork(u, h)
    \/ \E o \in Orders(DeletedIds(DB)) : NewStore(o)

Spec == Init /\ [][Next]_vars

\* uploads, deletions and restarts of artworks that receive comments and
\* reactions, all within one second; the compensation of a failed blob write
\* succeeds here, its failure is followed in Spec
NextFeedback ==
    \/ \E u \in Users, h \in FeedbackPayloads, w \in WriteOutcomes : addArtwork(u, h, w, TRUE)
    \/ \E u \in Users, h \in FeedbackPayloads : deleteArtwork(u, h)
    \/ \E o \in Orders(DeletedIds(DB)) : NewStore(o)
    \/ \E u \in Users, h \in FeedbackPayloads : addComment(u, h)
    \/ \E u \in Users, h \in FeedbackPayloads, k \in ReactionKinds : setReaction(u, h, k)

FeedbackSpec == Init /\ [][NextFeedback]_vars

\* the seconds at which the rows of the feed specification's catalogs were added:
\* payloads within 1..MaxClock, the bulk rows one per second after that
BulkAdded(h) == MaxClock + (h - MaxPayload)
Far == MaxClock + MaxBulk + 1

\* the two oldest bulk rows
FirstBulk == {MaxPayload + 1, MaxPayload + 2}
Cursors == 0..(MaxClock + 1) \cup {Far}

\* the relations Follow and Ban leave: nobody follows or bans themselves, and
\* nobody follows a user who bans them
RelationStates ==
    LET pairs == {p \in Users \X Users : p[1] # p[2]}
    IN  {rel \in [followers : SUBSET pairs, bans : SUBSET pairs] :
            \A p \in rel.followers : <<p[2], p[1]>> \notin rel.bans}

\* a state that uploads, deletions, follows and bans lead to: of each payload
\* no row or a row of some author, live or soft-deleted, and none, the two
\* oldest or all of the bulk rows, live and uploaded by one author
InitFeed ==
    /\ \E present \in SUBSET FeedbackPayloads, bulk \in {{}, FirstBulk, Hashes \ Payloads} :
       \E author \in [present -> Users], added \in [present -> 1..MaxClock],
          deleted \in SUBSET present, bulkAuthor \in Users :
            artworks = [h \in present \cup bulk |->
                            IF h \in present
                            THEN [Row(author[h], added[h]) EXCEPT !.deleted = h \in deleted]
                            ELSE Row(bulkAuthor, BulkAdded(h))]
    /\ blobs = [h \in DOMAIN artworks |-> "ok"]
    /\ comments = {}
    /\ reactions = {}
    /\ \E rel \in RelationStates : followers = rel.followers /\ bans = rel.bans
    /\ clock = Far - 1
    /\ nextComment = 0
    /\ resp = Resp("none", "none", 0, "none")
    /\ pending = NoPending

\* one feed request in each such state, all of whose rows are read
NextFeed ==
    /\ resp.op = "none"
    /\ \E u \in Users, since \in Cursors, latest \in Cursors, tie \in TieOrders :
            getStream(u, since, latest, tie, 0)

FeedSpec == InitFeed /\ [][NextFeed]_vars

\* one request for the artworks of an artist in each such state, all of whose
\* rows are read
NextListing ==
    /\ resp.op = "none"
    /\ \E u \in Users, artist \in Users, since \in Cursors, latest \in Cursors, tie \in TieOrders :
            getArtworks(u, artist, since, latest, tie, 0)

ListingSpec == InitFeed /\ [][NextListing]_vars

\* one feed request or one request for the artworks of an artist in each such
\* state, during which the Scan of one row fails
NextScan ==
    \/ /\ resp.op = "none"
       /\ \E u \in Users, since \in Cursors, latest \in Cursors, fail \in 1..MaxScanned :
                getStream(u, since, latest, "asc", fail)
    \/ /\ resp.op = "none"
       /\ \E u \in Users, artist \in Users, since \in Cursors, latest \in Cursors,
             fail \in 1..MaxScanned :
                getArtworks(u, artist, since, latest, "asc", fail)

ScanSpec == InitFeed /\ [][NextScan]_vars

\* uploads and reactions while the seconds pass
NextReaction ==
    \/ \E u \in Users, h \in FeedbackPayloads, w \in WriteOutcomes : addArtwork(u, h, w, TRUE)
    \/ \E u \in Users, h \in FeedbackPayloads, k \in ReactionKinds : setReaction(u, h, k)
    \/ Tick

ReactionSpec == Init /\ [][NextReaction]_vars

\* uploads, deletions, follows, bans and their lifting, and requests for the
\* metadata of an artwork, all within one second
NextVisibility ==
    \/ \E u \in Users, h \in FeedbackPayloads, w \in WriteOutcomes : addArtwork(u, h, w, TRUE)
    \/ \E u \in Users, h \in FeedbackPayloads : deleteArtwork(u, h)
    \/ \E u, t \in Users : followUser(u, t)
    \/ \E u, t \in Users : banUser(u, t)
    \/ \E u, t \in Users : unbanUser(u, t)
    \/ \E u \in Users, h \in FeedbackPayloads : getArtworkData(u, h)

VisibilitySpec == Init /\ [][NextVisibility]_vars

\* uploads, deletions, bans and their lifting, and requests for the image of an
\* artwork, all within one second
NextImage ==
    \/ \E u \in Users, h \in FeedbackPayloads, w \in WriteOutcomes : addArtwork(u, h, w, TRUE)
    \/ \E u \in Users, h \in FeedbackPayloads : deleteArtwork(u, h)
    \/ \E u, t \in Users : banUser(u, t)
    \/ \E u, t \in Users : unbanUser(u, t)
    \/ \E u \in Users, h \in FeedbackPayloads : getArtworkImage(u, h)

ImageSpec == Init /\ [][NextImage]_vars

\* uploads, deletions and title edits while the seconds pass
NextEdit ==
    \/ \E u \in Users, h \in FeedbackPayloads, w \in WriteOutcomes : addArtwork(u, h, w, TRUE)
    \/ \E u \in Users, h \in FeedbackPayloads : deleteArtwork(u, h)
    \/ \E u \in Users, h \in FeedbackPayloads, t \in Titles : setTitle(u, h, t)
    \/ Tick

EditSpec == Init /\ [][NextEdit]_vars

\* uploads, deletions, bans and their lifting, comments and their deletion, all
\* within one second
NextComment ==
    \/ \E u \in Users, h \in FeedbackPayloads, w \in WriteOutcomes : addArtwork(u, h, w, TRUE)
    \/ \E u \in Users, h \in FeedbackPayloads : deleteArtwork(u, h)
    \/ \E u, t \in Users : banUser(u, t)
    \/ \E u, t \in Users : unbanUser(u, t)
    \/ \E u \in Users, h \in FeedbackPayloads : addComment(u, h)
    \/ \E u \in Users, c \in 1..MaxComments : deleteComment(u, c)

CommentSpec == Init /\ [][NextComment]_vars

\* a catalog that does not change, with none or all of the bulk rows, and a
\* client that starts to page the feed of u
InitPaging ==
    /\ \E present \in SUBSET Payloads, bulk \in {{}, Hashes \ Payloads} :
       \E author \in [present -> Users], added \in [present -> 1..MaxClock],
          deleted \in SUBSET present, bulkAuthor \in Users :
            artworks = [h \in present \cup bulk |->
                            IF h \in present
                            THEN [Row(author[h], added[h]) EXCEPT !.deleted = h \in deleted]
                            ELSE Row(bulkAuthor, BulkAdded(h))]
    /\ blobs = [h \in DOMAIN artworks |-> "ok"]
    /\ comments = {}
    /\ reactions = {}
    /\ \E rel \in RelationStates : followers = rel.followers /\ bans = rel.bans
    /\ clock = Far - 1
    /\ nextComment = 0
    /\ resp = Resp("none", "none", 0, "none")
    /\ \E u \in Users :
            pending = [NoPending EXCEPT !.pager.pc = "paging", !.pager.user = u,
                                        !.pager.since = Far, !.pager.latest = Far]

NextPaging == \E tie \in TieOrders : Page(tie)

PagingSpec == InitPaging /\ [][NextPaging]_vars

\* the hash Contended with no row, or with a row, live or soft-deleted, and its
\* blob, and the requests about it that the server has received: uploads and
\* deletions by any users
InitConcurrent ==
    /\ \/ artworks = <<>>
       \/ \E author \in Users, deleted \in BOOLEAN :
            artworks = [h \in {Contended} |-> [Row(author, 1) EXCEPT !.deleted = deleted]]
    /\ blobs = [h \in DOMAIN artworks |-> "ok"]
    /\ comments = {}
    /\ reactions = {}
    /\ followers = {}
    /\ bans = {}
    /\ clock = 1
    /\ nextComment = 0
    /\ resp = Resp("none", "none", 0, "none")
    /\ \E op \in [1..MaxRequests -> {"addArtwork", "deleteArtwork"}],
          user \in [1..MaxRequests -> Users] :
            pending = [NoPending EXCEPT
                        !.requests = [i \in 1..MaxRequests |->
                            [op |-> op[i], user |-> user[i],
                             pc |-> IF op[i] = "addArtwork" THEN "clean" ELSE "delete",
                             existsImage |-> FALSE, status |-> "none"]]]

NextConcurrent ==
    \/ \E i \in 1..MaxRequests : RequestClean(i)
    \/ \E i \in 1..MaxRequests : RequestInsert(i)
    \/ \E i \in 1..MaxRequests, w \in WriteOutcomes : RequestWrite(i, w)
    \/ \E i \in 1..MaxRequests, c \in BOOLEAN : RequestCompensate(i, c)
    \/ \E i \in 1..MaxRequests : RequestDelete(i)

ConcurrentSpec == InitConcurrent /\ [][NextConcurrent]_vars

\* follows, bans and their lifting, in any order
NextRelation ==
    \/ \E u, t \in Users : followUser(u, t)
    \/ \E u, t \in Users : unfollowUser(u, t)
    \/ \E u, t \in Users : banUser(u, t)
    \/ \E u, t \in Users : unbanUser(u, t)

RelationSpec == Init /\ [][NextRelation]_vars

\* a state that uploads, comments, reactions and deletions lead to: every row,
\* live or soft-deleted, has its blob, a comment and a reaction
InitResurrect ==
    /\ \E present \in SUBSET Payloads :
       \E author \in [present -> Users], deleted \in SUBSET present :
            /\ artworks = [h \in present |->
                                [Row(author[h], 1) EXCEPT !.deleted = h \in deleted]]
            /\ comments = {[id |-> h, artwork |-> h, user |-> author[h]] : h \in present}
            /\ reactions = {[artwork |-> h, user |-> author[h], reaction |-> "Like", date |-> 1] :
                                h \in present}
    /\ blobs = [h \in DOMAIN artworks |-> "ok"]
    /\ followers = {}
    /\ bans = {}
    /\ clock = 1
    /\ nextComment = MaxPayload
    /\ resp = Resp("none", "none", 0, "none")
    /\ pending = NoPending

\* uploads and deletions from there on
NextResurrect ==
    \/ \E u \in Users, h \in Payloads, w \in WriteOutcomes : addArtwork(u, h, w, TRUE)
    \/ \E u \in Users, h \in Payloads : deleteArtwork(u, h)

ResurrectSpec == InitResurrect /\ [][NextResurrect]_vars

\* a state that uploads and deletions lead to, every row with its blob, in
\* which a process starts its reconciliation while another has received the
\* upload of h by u; resurrects records whether u uploads the bytes of a row
\* they soft-deleted
InitRace ==
    /\ \E present \in SUBSET Payloads :
       \E author \in [present -> Users], deleted \in SUBSET present :
            artworks = [h \in present |-> [Row(author[h], 1) EXCEPT !.deleted = h \in deleted]]
    /\ blobs = [h \in DOMAIN artworks |-> "ok"]
    /\ comments = {}
    /\ reactions = {}
    /\ followers = {}
    /\ bans = {}
    /\ clock = 1
    /\ nextComment = 0
    /\ resp = Resp("none", "none", 0, "none")
    /\ \E u \in Users, h \in Payloads :
            pending = [NoPending EXCEPT
                            !.upload.pc = "clean", !.upload.user = u, !.upload.hash = h,
                            !.upload.resurrects = /\ h \in DOMAIN artworks
                                                  /\ artworks[h].deleted
                                                  /\ artworks[h].author = u]

NextRace ==
    \/ \E o \in Orders(DeletedIds(DB)) : JobDelete(o)
    \/ JobRemove
    \/ JobDone
    \/ UploadClean
    \/ UploadInsert
    \/ \E w \in WriteOutcomes : UploadWrite(w)
    \/ \E c \in BOOLEAN : UploadCompensate(c)

RaceSpec == InitRace /\ [][NextRace]_vars

\* ---------------------------------------------------------------- claims
Exists(h) == h \in DOMAIN artworks
Live(h) == Exists(h) /\ ~artworks[h].deleted
Blob(h) == IF h \in DOMAIN blobs THEN blobs[h] ELSE "absent"
CommentsOf(cs, h) == {c \in cs : c.artwork = h}
ReactionsOf(rs, h) == {r \in rs : r.artwork = h}
Feedback == <<comments, reactions>>

\* the step is the handling of a request op of user u about artwork h: every
\* handler records its request in resp and leaves the clock alone
Handles(op, u, h) ==
    /\ resp'.op = op
    /\ resp'.user = u
    /\ resp'.hash = h
    /\ clock' = clock

UploadBy(u, h) == Handles("addArtwork", u, h)
DeleteBy(u, h) == Handles("deleteArtwork", u, h)

\* C1 (as claimed): whenever an upload has just returned success for author a
\* and hash h, the row h exists, is live and authored by a, and the blob of h
\* exists in the images directory.
C1_SuccessHasRowAndBlob ==
    (resp.op = "addArtwork" /\ resp.status = "Created") =>
        /\ Live(resp.hash)
        /\ artworks[resp.hash].author = resp.user
        /\ Blob(resp.hash) # "absent"

\* C2: an upload of a payload whose row is live is answered with the
\* duplicate-artwork error and leaves rows, feedback and blobs as they were.
C2_LiveDuplicateRejected ==
    [][\A u \in Users, h \in Payloads :
        (Live(h) /\ UploadBy(u, h)) =>
            /\ resp'.status = "BadRequest"
            /\ artworks' = artworks
            /\ blobs' = blobs
            /\ Feedback' = Feedback]_vars

C2_Witness ==
    /\ resp.op = "addArtwork"
    /\ resp.status = "BadRequest"
    /\ Live(resp.hash)
    /\ artworks[resp.hash].author = resp.user
    /\ Blob(resp.hash) = "ok"

\* C3: when the owner uploads the bytes of a row they soft-deleted, the upload
\* succeeds with the same identity, the row of that identity is live and
\* theirs, and writeImage is skipped: the blob is left as it is.
C3_ReuploadAfterDelete ==
    [][\A u \in Users, h \in Payloads :
        (Exists(h) /\ artworks[h].deleted /\ artworks[h].author = u /\ UploadBy(u, h)) =>
            /\ resp'.status = "Created"
            /\ resp'.hash = h
            /\ resp'.existsImage
            /\ Live(h)'
            /\ artworks'[h].author = u
            /\ blobs' = blobs]_vars

C3_Witness ==
    /\ resp.op = "addArtwork"
    /\ resp.status = "Created"
    /\ resp.existsImage
    /\ Live(resp.hash)
    /\ Blob(resp.hash) = "ok"

\* C4 (as claimed): when an upload has just returned the storage failure of
\* its blob write, no row with that identity remains.
C4_FailedWriteLeavesNoRow ==
    (resp.op = "addArtwork" /\ resp.status = "InternalServerError") => ~Exists(resp.hash)

\* C5 (as claimed): between requests every row has its blob and every blob
\* has its row.
C5_RowsAndBlobsAgree ==
    DOMAIN artworks = DOMAIN blobs

\* C6: an upload by b of a payload whose live row belongs to another author a
\* fails; a's row, the feedback and the blobs are left as they were.
C6_OtherAuthorsLiveRow ==
    [][\A b \in Users, h \in Payloads :
        (Live(h) /\ artworks[h].author # b /\ UploadBy(b, h)) =>
            /\ resp'.status # "Created"
            /\ Live(h)'
            /\ artworks'[h].author = artworks[h].author
            /\ artworks' = artworks
            /\ blobs' = blobs
            /\ Feedback' = Feedback]_vars

C6_Witness ==
    /\ resp.op = "addArtwork"
    /\ resp.status = "BadRequest"
    /\ Live(resp.hash)
    /\ artworks[resp.hash].author # resp.user
    /\ Blob(resp.hash) = "ok"

\* C7: a delete request succeeds exactly when the row exists, is the
\* requester's and is not yet soft-deleted; then it sets the row's deleted
\* flag and nothing else; otherwise it fails and changes nothing.
C7_SoftDelete ==
    [][\A u \in Users, h \in Payloads :
        DeleteBy(u, h) =>
            LET owned == Live(h) /\ artworks[h].author = u
            IN  /\ resp'.status = "NoContent" <=> owned
                /\ owned => artworks' = [artworks EXCEPT ![h].deleted = TRUE]
                /\ ~owned => artworks' = artworks
                /\ blobs' = blobs
                /\ Feedback' = Feedback]_vars

C7_Witness ==
    /\ resp.op = "deleteArtwork"
    /\ resp.status = "NoContent"
    /\ Exists(resp.hash)
    /\ artworks[resp.hash].deleted
    /\ Blob(resp.hash) = "ok"
    /\ CommentsOf(comments, resp.hash) # {}
    /\ ReactionsOf(reactions, resp.hash) # {}

\* a row that exists before a step and the feedback attached to it are there
\* after the step
Retained(h) ==
    /\ Exists(h)'
    /\ artworks'[h].author = artworks[h].author
    /\ artworks'[h].added = artworks[h].added
    /\ CommentsOf(comments, h) \subseteq comments'
    /\ ReactionsOf(reactions, h) \subseteq reactions'

\* the step is the handling of an upload or of a delete request
AnswersUploadOrDelete ==
    \E u \in Users, h \in Payloads : UploadBy(u, h) \/ DeleteBy(u, h)

OwnersReupload(h) ==
    /\ UploadBy(artworks[h].author, h)
    /\ artworks[h].deleted

Visible(u) ==
    {h \in DOMAIN artworks :
        /\ <<u, artworks[h].author>> \in followers
        /\ <<artworks[h].author, u>> \notin bans
        /\ ~artworks[h].deleted}

Range(seq) == {seq[i] : i \in DOMAIN seq}
NoDuplicates(seq) == \A i, j \in DOMAIN seq : i # j => seq[i] # seq[j]
AddedDescending(seq) ==
    \A i, j \in DOMAIN seq : i < j => artworks[seq[i]].added >= artworks[seq[j]].added

\* C9 (as claimed): the Artworks of a feed response are the newest artworks,
\* at most defaultPage of them and newest first, among the visible artworks
\* added before since, and nothing else.
C9_BackfillIsNewestPage ==
    resp.op = "getStream" =>
        LET older == {h \in Visible(resp.user) : artworks[h].added < resp.since}
            page == resp.stream.Artworks
        IN  /\ Range(page) \subseteq older
            /\ NoDuplicates(page)
            /\ Len(page) = (IF Cardinality(older) < defaultPage THEN Cardinality(older) ELSE defaultPage)
            /\ AddedDescending(page)
            /\ \A h \in older \ Range(page), g \in Range(page) :
                    artworks[g].added >= artworks[h].added

\* C10 (as claimed): the NewArtworks of a feed response are exactly the
\* visible artworks added after latest, however many they are.
C10_NewIsAllNewer ==
    resp.op = "getStream" =>
        /\ Range(resp.stream.NewArtworks) =
                {h \in Visible(resp.user) : artworks[h].added > resp.latest}
        /\ NoDuplicates(resp.stream.NewArtworks)

\* C11 (as claimed): the DeletedIds of a feed response are exactly the
\* soft-deleted artworks, of authors the requester follows and who do not ban
\* the requester, added strictly between latest and since; none of them is
\* dropped because of the other rows of the result.
C11_TombstonesInWindow ==
    resp.op = "getStream" =>
        /\ Range(resp.stream.DeletedIds) =
                {h \in DOMAIN artworks :
                    /\ artworks[h].deleted
                    /\ <<resp.user, artworks[h].author>> \in followers
                    /\ <<artworks[h].author, resp.user>> \notin bans
                    /\ artworks[h].added > resp.latest
                    /\ artworks[h].added < resp.since}
        /\ NoDuplicates(resp.stream.DeletedIds)

\* the artworks a feed response carries in each of the three collections
InBackfill == Range(resp.stream.Artworks)
InNew == Range(resp.stream.NewArtworks)
InDeletedIds == Range(resp.stream.DeletedIds)

\* C12 (as claimed): a feed response to requester R holds, in none of its three
\* collections, an artwork of an author who bans R.
C12_BanHidesAuthorFromBanned ==
    resp.op = "getStream" =>
        \A h \in InBackfill \cup InNew \cup InDeletedIds :
            <<artworks[h].author, resp.user>> \notin bans

\* C13 (as claimed, feed part): a feed response to requester U holds, in
\* Artworks and in NewArtworks, no artwork of an author whom U bans, whether or
\* not U follows that author.
C13_BanHidesBannedFromBanner ==
    resp.op = "getStream" =>
        \A h \in InBackfill \cup InNew :
            <<resp.user, artworks[h].author>> \notin bans

\* C14 (as claimed): in a feed response Artworks has at most defaultPage
\* entries, NewArtworks and DeletedIds are ordered newest first, and the page
\* size cuts neither of the two: every visible live artwork added after both
\* cursors is in NewArtworks, and every soft-deleted artwork of a visible
\* author added between latest and since is in DeletedIds.
C14_PageSizeAndOrder ==
    resp.op = "getStream" =>
        /\ Len(resp.stream.Artworks) <= defaultPage
        /\ AddedDescending(resp.stream.NewArtworks)
        /\ AddedDescending(resp.stream.DeletedIds)
        /\ \A h \in Visible(resp.user) :
                (artworks[h].added > resp.since /\ artworks[h].added > resp.latest)
                    => h \in InNew
        /\ \A h \in DOMAIN artworks :
                (/\ artworks[h].deleted
                 /\ <<resp.user, artworks[h].author>> \in followers
                 /\ <<artworks[h].author, resp.user>> \notin bans
                 /\ artworks[h].added > resp.latest
                 /\ artworks[h].added < resp.since)
                    => h \in InDeletedIds

\* three live artworks a1, a2, a3 of one author whom the requester follows and
\* who does not ban the requester, added in this order at three different
\* seconds, are all there is in the catalog
ThreeOfFollowed(a1, a2, a3) ==
    /\ DOMAIN artworks = {a1, a2, a3}
    /\ {a1, a2, a3} \subseteq Visible(resp.user)
    /\ artworks[a1].author = artworks[a2].author
    /\ artworks[a2].author = artworks[a3].author
    /\ artworks[a1].added < artworks[a2].added
    /\ artworks[a2].added < artworks[a3].added

\* C15 (as claimed): with three such artworks added at t1 < t2 < t3, the feed
\* for since = t2, latest = t2 has Artworks = [a1] and no NewArtworks, and the
\* feed for since = t2, latest = t1 has NewArtworks = [a3, a2].
C15_ThreeArtworksExample ==
    resp.op = "getStream" =>
        \A a1, a2, a3 \in DOMAIN artworks :
            (ThreeOfFollowed(a1, a2, a3) /\ resp.since = artworks[a2].added) =>
                /\ resp.latest = artworks[a2].added =>
                        /\ resp.stream.Artworks = <<a1>>
                        /\ resp.stream.NewArtworks = <<>>
                /\ resp.latest = artworks[a1].added =>
                        resp.stream.NewArtworks = <<a3, a2>>

\* the step is a run of the reconciliation at process start
Reconciles ==
    /\ resp'.op = "NewStore"
    /\ clock' = clock

\* C16 (as claimed): a reconciliation that finds a soft-deleted row without its
\* blob finishes without error, and every soft-deleted row is gone afterwards
\* together with its blob.
C16_ToleratesMissingBlob ==
    [][(Reconciles /\ \E h \in DeletedIds(DB) : Blob(h) = "absent") =>
            /\ resp'.status = "ok"
            /\ \A h \in DeletedIds(DB) : ~Exists(h)' /\ Blob(h)' = "absent"]_vars

\* C17: after a reconciliation that finishes without error no soft-deleted row
\* is left, the rows that were soft-deleted are gone with their blobs, comments
\* and reactions, no comment or reaction refers to a missing row, and every
\* live row, its blob, its comments and its reactions are as they were.
C17_ReconciliationFrame ==
    [][(Reconciles /\ resp'.status = "ok") =>
            /\ DeletedIds(DB)' = {}
            /\ \A h \in DeletedIds(DB) :
                    /\ ~Exists(h)'
                    /\ Blob(h)' = "absent"
                    /\ CommentsOf(comments', h) = {}
                    /\ ReactionsOf(reactions', h) = {}
            /\ \A c \in comments' : Exists(c.artwork)'
            /\ \A r \in reactions' : Exists(r.artwork)'
            /\ \A h \in DOMAIN artworks :
                    Live(h) =>
                        /\ Exists(h)'
                        /\ artworks'[h] = artworks[h]
                        /\ Blob(h)' = Blob(h)
                        /\ CommentsOf(comments', h) = CommentsOf(comments, h)
                        /\ ReactionsOf(reactions', h) = ReactionsOf(reactions, h)]_vars

\* a reconciliation has just finished without error and left nothing behind of
\* an artwork that had been commented
C17_Witness ==
    /\ resp.op = "NewStore"
    /\ resp.status = "ok"
    /\ nextComment > 0
    /\ artworks = <<>>
    /\ blobs = <<>>
    /\ comments = {}

\* the reconciliation and the upload have both come to their end
Finished ==
    /\ pending.job.pc \in {"done", "failed"}
    /\ pending.upload.pc = "done"

\* C18: however the steps of a reconciliation and of the owner's upload of the
\* bytes of a soft-deleted row interleave, once both are over either the
\* upload has failed or the row is live and its blob is there.
C18_RaceLeavesRowWithBlob ==
    (Finished /\ pending.upload.resurrects) =>
        \/ pending.upload.status # "Created"
        \/ Live(pending.upload.hash) /\ Blob(pending.upload.hash) # "absent"

\* the reconciliation removed the row and the blob before the owner's upload
\* looked for the row, and the upload has published both again
C18_Witness ==
    /\ Finished
    /\ pending.upload.resurrects
    /\ ~pending.upload.existsImage
    /\ pending.upload.status = "Created"
    /\ Live(pending.upload.hash)
    /\ Blob(pending.upload.hash) = "ok"

\* the reaction of u to a that rs stores
ReactionOf(rs, u, a) == {r \in rs : r.artwork = a /\ r.user = u}

\* C19: a setReaction(u, a, k) that follows a setReaction(u, a, k) answered
\* "changed" is answered "unchanged" and leaves the stored reactions, kind and
\* timestamp, as they were, and so does any call with the stored kind; a call
\* with another kind, or the first one, is answered "changed" and stores k with
\* the time of the call in place of what was stored.
C19_SetReactionIdempotent ==
    [][\A u \in Users, a \in FeedbackPayloads, k \in ReactionKinds :
        (Handles("setReaction", u, a) /\ resp'.reaction = k /\ Exists(a)) =>
            LET old   == ReactionOf(reactions, u, a)
                again == /\ resp.op = "setReaction"
                         /\ resp.user = u
                         /\ resp.hash = a
                         /\ resp.reaction = k
                         /\ resp.status = "changed"
            IN  /\ again => (resp'.status = "unchanged" /\ reactions' = reactions)
                /\ (\E r \in old : r.reaction = k) =>
                        (resp'.status = "unchanged" /\ reactions' = reactions)
                /\ (\A r \in old : r.reaction # k) =>
                        /\ resp'.status = "changed"
                        /\ reactions' = (reactions \ old) \cup
                                {[artwork |-> a, user |-> u, reaction |-> k, date |-> clock]}]_vars

\* a call with the stored kind has been answered "unchanged" a second after
\* the reaction was stored, and the stored timestamp is still the earlier one
C19_Witness ==
    /\ resp.op = "setReaction"
    /\ resp.status = "unchanged"
    /\ \E r \in ReactionOf(reactions, resp.user, resp.hash) :
            r.reaction = resp.reaction /\ r.date < clock

\* the author of artwork h bans r
BannedFrom(h, r) == Exists(h) /\ <<artworks[h].author, r>> \in bans

\* C20: a request for the metadata of an artwork that does not exist, is
\* soft-deleted, or whose author bans the requester is answered not-found, with
\* the very response the same request gets in a store without the row; any
\* other request is answered with the artwork; and once its author has lifted
\* the ban of a user, a live artwork is returned to that user.
C20_BanAwareFetch ==
    /\ [](resp.op = "getArtworkData" =>
            IF ~Live(resp.hash) \/ BannedFrom(resp.hash, resp.user)
            THEN /\ resp.status = "NotFound"
                 /\ resp = ArtworkDataResponse(resp.user, resp.hash,
                                GetArtworkData(DeleteRows(DB, {resp.hash}), Relations,
                                               resp.hash, resp.user))
            ELSE /\ resp.status = "Ok"
                 /\ resp.artwork.author = artworks[resp.hash].author)
    /\ [][\A s, t \in Users :
            (/\ resp'.op = "unbanUser"
             /\ resp'.user = s
             /\ resp'.status = "NoContent"
             /\ clock' = clock
             /\ <<s, t>> \in bans \ bans') =>
                \A h \in DOMAIN artworks :
                    (Live(h) /\ artworks[h].author = s) =>
                        GetArtworkData(DB', Relations', h, t).err = "nil"]_vars

\* a user banned by the author of a live artwork has asked for its metadata
\* and has been answered not-found
C20_Witness ==
    /\ resp.op = "getArtworkData"
    /\ resp.status = "NotFound"
    /\ Live(resp.hash)
    /\ BannedFrom(resp.hash, resp.user)

\* C21 (as claimed): a request for the image of an artwork that does not exist,
\* is soft-deleted, or whose author bans the requester is answered not-found,
\* and the blob of a soft-deleted artwork is never served.
C21_ImageNotFound ==
    resp.op = "getArtworkImage" =>
        /\ (~Live(resp.hash) \/ BannedFrom(resp.hash, resp.user)) => resp.status = "NotFound"
        /\ (Exists(resp.hash) /\ ~Live(resp.hash)) => resp.status # "Ok"

\* C22 (as claimed): no request changes the added timestamp of an artwork
\* identity that stays published; title edits, soft deletions and re-uploads
\* after a soft deletion leave it as it was.
C22_AddedImmutable ==
    [][\A h \in DOMAIN artworks :
            Exists(h)' => artworks'[h].added = artworks[h].added]_vars

\* C23 (as claimed): a title edit by the owner that succeeds sets updated to the
\* time of the edit and leaves added, author and the deleted flag as they were.
C23_TitleEditBumpsUpdated ==
    [][\A u \in Users, h \in FeedbackPayloads :
        (Handles("setTitle", u, h) /\ resp'.status = "NoContent") =>
            /\ artworks'[h].updated = clock
            /\ artworks'[h].added = artworks[h].added
            /\ artworks'[h].author = artworks[h].author
            /\ artworks'[h].deleted = artworks[h].deleted]_vars

\* the artworks in the three collections of the listing in resp
Listed ==
    Range(resp.listing.Requested) \cup Range(resp.listing.New) \cup Range(resp.listing.Deleted)

\* C24 (as claimed): every entry of the three collections that a listing of the
\* artworks of an artist returns is an artwork of that artist, and the three
\* collections are empty when the artist bans the requester.
C24_ListingOfOneAuthor ==
    resp.op = "getArtworks" =>
        /\ \A h \in Listed : artworks[h].author = resp.artist
        /\ <<resp.artist, resp.user>> \in bans => Listed = {}

\* C25 (as claimed): a request of a user to comment an artwork whose author
\* bans them is rejected and adds no comment; and a comment disappears only
\* with a delete request of its own author or with the destruction of the row
\* of its artwork.
C25_BannedCannotComment ==
    [][/\ \A u \in Users, h \in FeedbackPayloads :
            (Handles("addComment", u, h) /\ BannedFrom(h, u)) =>
                (resp'.status # "Created" /\ comments' = comments)
       /\ \A c \in comments \ comments' :
            \/ resp'.op = "deleteComment" /\ resp'.user = c.user /\ resp'.hash = c.id
            \/ ~Exists(c.artwork)'
            \/ OwnersReupload(c.artwork)]_vars

\* C26 (as claimed): when the Scan of row k+1 of a feed or of a listing fails,
\* the function returns the k rows read before it, in their collections,
\* together with the error.
C26_PartialResults ==
    (resp.op \in {"getStream", "getArtworks"} /\ resp.failed > 0) =>
        /\ resp.status = "InternalServerError"
        /\ resp.op = "getStream" =>
                Len(resp.stream.Artworks) + Len(resp.stream.NewArtworks)
                    + Len(resp.stream.DeletedIds) = resp.failed - 1
        /\ resp.op = "getArtworks" =>
                Len(resp.listing.Requested) + Len(resp.listing.New)
                    + Len(resp.listing.Deleted) = resp.failed - 1

\* C27 (as claimed): a client that pages the feed of an unchanging catalog by
\* the smallest added timestamp of the previous page never receives an artwork
\* twice, and has received every visible artwork when the pages end.
C27_PagingExactlyOnce ==
    /\ NoDuplicates(pending.pager.seen)
    /\ pending.pager.pc = "done" =>
            Range(pending.pager.seen) = Visible(pending.pager.user)

\* every request about the hash Contended has been answered
AllReplied == \A i \in DOMAIN pending.requests : pending.requests[i].pc = "done"

\* request i is an upload answered with success
Succeeded(p, i) == p.requests[i].op = "addArtwork" /\ p.requests[i].status = "Created"

\* C28 (as claimed): however the statements of concurrent uploads and deletions
\* of one hash interleave, once all are answered a successful upload has its
\* row, live unless a deletion succeeded, and its blob; no upload is
\* answered with success while the blob is absent; and the compensation of a
\* failed upload removes no row that another upload inserted.
C28_ConcurrentUploadsAndDeletes ==
    /\ [](AllReplied =>
            \A i \in DOMAIN pending.requests :
                Succeeded(pending, i) =>
                    /\ Exists(Contended)
                    /\ Blob(Contended) # "absent"
                    /\ \/ Live(Contended)
                       \/ \E j \in DOMAIN pending.requests :
                            /\ pending.requests[j].op = "deleteArtwork"
                            /\ pending.requests[j].status = "NoContent")
    /\ [][\A i \in DOMAIN pending.requests :
            /\ (~Succeeded(pending, i) /\ Succeeded(pending', i)) =>
                    Blob(Contended)' # "absent"
            /\ (/\ pending.requests[i].pc = "compensate"
                /\ pending'.requests[i].pc = "done"
                /\ Exists(Contended) /\ ~Exists(Contended)') =>
                    pending.rowOf = i]_vars

\* C29: whatever follows, unfollows, bans and unbans have been handled, nobody
\* follows a user who bans them.
C29_NoFollowOfBanner ==
    \A f, t \in Users : ~(<<f, t>> \in followers /\ <<t, f>> \in bans)

\* a user has asked to follow a user who bans them and has been refused
C29_Witness ==
    /\ resp.op = "followUser"
    /\ resp.status = "NotFound"
    /\ \E t \in Users : <<t, resp.user>> \in bans /\ <<resp.user, t>> \notin followers

\* C30: the upload by its author of the bytes of a soft-deleted artwork is
\* answered with success and leaves the artwork live without any comment or
\* reaction, and the comments and reactions of every other artwork as they
\* were.
C30_ResurrectionDropsFeedback ==
    [][\A u \in Users, h \in Payloads :
        (UploadBy(u, h) /\ Exists(h) /\ artworks[h].deleted /\ artworks[h].author = u) =>
            /\ resp'.status = "Created"
            /\ Live(h)'
            /\ CommentsOf(comments', h) = {}
            /\ ReactionsOf(reactions', h) = {}
            /\ \A g \in Payloads \ {h} :
                    /\ CommentsOf(comments', g) = CommentsOf(comments, g)
                    /\ ReactionsOf(reactions', g) = ReactionsOf(reactions, g)]_vars

\* an author has just uploaded again the bytes of an artwork they had
\* soft-deleted: it is live without comments and reactions, while another
\* artwork has kept its own
C30_Witness ==
    /\ resp.op = "addArtwork"
    /\ resp.status = "Created"
    /\ resp.existsImage
    /\ Live(resp.hash)
    /\ CommentsOf(comments, resp.hash) = {}
    /\ ReactionsOf(reactions, resp.hash) = {}
    /\ \E g \in Payloads \ {resp.hash} :
            /\ CommentsOf(comments, g) # {}
            /\ ReactionsOf(reactions, g) # {}

====
